---- MODULE Spec2Model ----
(***************************************************************************)
(* A model of the Configuration library:                                   *)
(*   - ConfigurationFactory::getConfiguration (ConfigurationFactory.cxx),  *)
(*   - the ConfigurationInterface contract of a back end                   *)
(*     (ConfigurationInterface.h),                                         *)
(*   - configFile::load and configFile::getValue (Configuration.cxx).      *)
(* Strings are sequences of one-character strings, so that prefix, suffix  *)
(* and delimiter searches are computed and not assumed.                    *)
(***************************************************************************)
EXTENDS Integers, Sequences, FiniteSets, TLC

VARIABLES
    jsonEnabled,    \* FLP_CONFIGURATION_BACKEND_FILE_JSON_ENABLED of the build
    consulEnabled,  \* FLP_CONFIGURATION_BACKEND_CONSUL_ENABLED of the build
    fac,            \* the last call of getConfiguration and what it did
    backend,        \* a back-end instance: its prefix and its separator
    store,          \* the medium behind the instance: location -> value
    written,        \* history: the locations a putString has stored to
    sepHist,        \* history: the separator last set and not reset since, else '/'
    bop,            \* the last call on the instance and its result
    pt,             \* configFilePrivate::pt, the loaded tree: key -> value
    cf,             \* the last call on the configFile and its result
    outStr,         \* the caller's std::string given to getValue
    outInt,         \* the caller's int given to getValue
    outFloat        \* the caller's float given to getValue

vars == <<jsonEnabled, consulEnabled, fac, backend, store, written, sepHist, bop,
          pt, cf, outStr, outInt, outFloat>>

facVars == <<jsonEnabled, consulEnabled, fac>>
backendVars == <<backend, store, written, sepHist, bop>>
fileVars == <<pt, cf, outStr, outInt, outFloat>>

----------------------------------------------------------------------------
(* Character strings *)

StartsWith(s, p) ==
    /\ Len(p) <= Len(s)
    /\ SubSeq(s, 1, Len(p)) = p

EndsWith(s, p) ==
    /\ Len(p) <= Len(s)
    /\ SubSeq(s, Len(s) - Len(p) + 1, Len(s)) = p

\* std::string::find: the first index at which d occurs in s, 0 when none
Find(s, d) ==
    LET hits == {i \in 1..(Len(s) - Len(d) + 1) : SubSeq(s, i, i + Len(d) - 1) = d}
    IN  IF hits = {} THEN 0 ELSE CHOOSE i \in hits : \A j \in hits : i <= j

From(s, i) == SubSeq(s, i, Len(s))

DigitValue ==
    [c \in {"0", "1", "2", "3", "4", "5", "6", "7", "8", "9"} |->
        CASE c = "0" -> 0 [] c = "1" -> 1 [] c = "2" -> 2 [] c = "3" -> 3
          [] c = "4" -> 4 [] c = "5" -> 5 [] c = "6" -> 6 [] c = "7" -> 7
          [] c = "8" -> 8 [] c = "9" -> 9]

IsDigit(c) == c \in DOMAIN DigitValue

RECURSIVE DigitsValue(_)
DigitsValue(s) ==
    IF s = <<>> THEN 0
    ELSE 10 * DigitsValue(SubSeq(s, 1, Len(s) - 1)) + DigitValue[s[Len(s)]]

\* the longest prefix of s made of digits
RECURSIVE LeadingDigits(_)
LeadingDigits(s) ==
    IF s # <<>> /\ IsDigit(s[1]) THEN <<s[1]>> \o LeadingDigits(From(s, 2)) ELSE <<>>

----------------------------------------------------------------------------
(* ConfigurationFactory *)

S_file == <<"f", "i", "l", "e">>
S_json == <<"j", "s", "o", "n">>
S_consul == <<"c", "o", "n", "s", "u", "l">>

U_notAUri == <<"n", "o", "t", "-", "a", "-", "u", "r", "i">>
U_noScheme == <<":", "/", "/", "h", "/", "x">>
U_oneSlash == <<"f", "i", "l", "e", ":", "/", "t", "m", "p", "/", "x", ".", "i", "n", "i">>
U_ftp == <<"f", "t", "p", ":", "/", "/", "h", "o", "s", "t", "/", "x">>
U_upperFile == <<"F", "I", "L", "E", ":", "/", "/", "t", "m", "p", "/", "x", ".", "i", "n", "i">>
U_file3 == <<"f", "i", "l", "e", ":", "/", "/", "/", "t", "m", "p", "/", "x", ".", "i", "n", "i">>
U_file2 == <<"f", "i", "l", "e", ":", "/", "/", "t", "m", "p", "/", "x", ".", "i", "n", "i">>
U_fileHostOnly == <<"f", "i", "l", "e", ":", "/", "/", "x", ".", "i", "n", "i">>
U_json3 == <<"j", "s", "o", "n", ":", "/", "/", "/", "t", "/", "x", ".", "j", "s", "o", "n">>
U_json2 == <<"j", "s", "o", "n", ":", "/", "/", "t", "/", "x", ".", "j", "s", "o", "n">>
U_consulPrefix == <<"c", "o", "n", "s", "u", "l", ":", "/", "/", "h", ":", "8", "5", "0", "0", "/", "p">>
U_consulBare == <<"c", "o", "n", "s", "u", "l", ":", "/", "/", "h", ":", "8", "5", "0", "0">>
U_consulNoPort == <<"c", "o", "n", "s", "u", "l", ":", "/", "/", "h", "/", "p">>
U_consulHostOnly == <<"c", "o", "n", "s", "u", "l", ":", "/", "/", "h">>
U_consulBadPort == <<"c", "o", "n", "s", "u", "l", ":", "/", "/", "h", ":", "x", "/", "p">>
U_http == <<"h", "t", "t", "p", ":", "/", "/", "h", ":", "8", "0", "/", "x">>
U_jsonHostOnly == <<"j", "s", "o", "n", ":", "/", "/", "x", ".", "j", "s", "o", "n">>
U_fileEmpty == <<"f", "i", "l", "e", ":", "/", "/">>

\* the connection strings given to getConfiguration
Uris ==
    {<<>>, U_notAUri, U_noScheme, U_oneSlash, U_ftp, U_upperFile, U_file3, U_file2,
     U_fileHostOnly, U_json3, U_json2, U_consulPrefix, U_consulBare, U_consulNoPort,
     U_consulHostOnly, U_consulBadPort, U_http, U_jsonHostOnly, U_fileEmpty}

P_tmp == <<"/", "t", "m", "p", "/", "x", ".", "i", "n", "i">>
P_slashTmp == <<"/", "/", "t", "m", "p", "/", "x", ".", "i", "n", "i">>
P_relTmp == <<"t", "m", "p", "/", "x", ".", "i", "n", "i">>

\* http::ParseHttpUrl: scheme://host[:port]/path. The scheme is what precedes
\* "://" and is empty when the string has no "://"; the authority runs to the
\* first '/' after it, the path is the rest with that '/'; the port is the
\* number after ':' in the authority.
ParseHttpUrl(s) ==
    LET at == Find(s, <<":", "/", "/">>)
        protocol == IF at = 0 THEN <<>> ELSE SubSeq(s, 1, at - 1)
        rest == IF at = 0 THEN s ELSE From(s, at + 3)
        slash == Find(rest, <<"/">>)
        path == IF slash = 0 THEN <<>> ELSE From(rest, slash)
        authority == IF slash = 0 THEN rest ELSE SubSeq(rest, 1, slash - 1)
        colon == Find(authority, <<":">>)
        host == IF colon = 0 THEN authority ELSE SubSeq(authority, 1, colon - 1)
        port == IF colon = 0 THEN 0
                ELSE DigitsValue(LeadingDigits(From(authority, colon + 1)))
    IN  [protocol |-> protocol, host |-> host, port |-> port, path |-> path]

NoHandle == [kind |-> "none", path |-> <<>>, host |-> <<>>, port |-> 0, prefix |-> <<>>]

\* a call that ended with an exception thrown before any constructor ran
Throw(what) ==
    [outcome |-> what, ctors |-> <<>>, setPrefix |-> <<>>, handle |-> NoHandle]

\* std::make_unique<Backend>(args): the constructor runs on args; when it
\* throws, the exception leaves the factory and nothing else of it runs
Construct(kind, args, ctorOk, prefixCalls) ==
    IF ctorOk
    THEN [outcome |-> "returned",
          ctors |-> <<[kind |-> kind] @@ args>>,
          setPrefix |-> prefixCalls,
          handle |-> [kind |-> kind,
                      prefix |-> IF prefixCalls = <<>> THEN <<>> ELSE prefixCalls[Len(prefixCalls)]]
                     @@ args @@ NoHandle]
    ELSE [outcome |-> "construction failed",
          ctors |-> <<[kind |-> kind] @@ args>>,
          setPrefix |-> <<>>,
          handle |-> NoHandle]

getFile_noSlash(uri, ctorOk) ==
    Construct("file", [path |-> uri.host \o uri.path], ctorOk, <<>>)

getFile(uri, ctorOk) ==
    LET path == <<"/">> \o uri.host \o uri.path
    IN  Construct("file", [path |-> path], ctorOk, <<>>)

getJson_fallback(uri, ctorOk) ==
    IF jsonEnabled
    THEN Construct("json", [path |-> <<"/">> \o uri.host \o uri.path], ctorOk, <<>>)
    ELSE getFile(uri, ctorOk)

getJson(uri, ctorOk) ==
    IF jsonEnabled
    THEN LET path == <<"/">> \o uri.host \o uri.path
         IN  Construct("json", [path |-> path], ctorOk, <<>>)
    ELSE Throw("Back-end 'json' not enabled")

getConsul_alwaysPrefix(uri, ctorOk) ==
    IF consulEnabled
    THEN Construct("consul", [host |-> uri.host, port |-> uri.port], ctorOk, <<uri.path>>)
    ELSE Throw("Back-end 'consul' not enabled")

getConsul(uri, ctorOk) ==
    IF consulEnabled
    THEN Construct("consul", [host |-> uri.host, port |-> uri.port], ctorOk,
                   IF uri.path # <<>> THEN <<uri.path>> ELSE <<>>)
    ELSE Throw("Back-end 'consul' not enabled")

\* the static scheme -> constructor table
map == (S_file :> "file") @@ (S_json :> "json") @@ (S_consul :> "consul")

Dispatch(name, parsedUrl, ctorOk) ==
    CASE name = "file" -> getFile(parsedUrl, ctorOk)
      [] name = "json" -> getJson(parsedUrl, ctorOk)
      [] name = "consul" -> getConsul(parsedUrl, ctorOk)

getConfiguration_lookupFirst(uri, ctorOk) ==
    LET parsedUrl == ParseHttpUrl(uri)
    IN  IF parsedUrl.protocol \in DOMAIN map
        THEN Dispatch(map[parsedUrl.protocol], parsedUrl, ctorOk)
        ELSE Throw("Unrecognized backend")

ToLower(c) ==
    CASE c = "F" -> "f" [] c = "I" -> "i" [] c = "L" -> "l" [] c = "E" -> "e" [] OTHER -> c

getConfiguration_ignoreCase(uri, ctorOk) ==
    LET parsedUrl == ParseHttpUrl(uri)
        scheme == [i \in 1..Len(parsedUrl.protocol) |-> ToLower(parsedUrl.protocol[i])]
    IN  IF parsedUrl.protocol = <<>>
        THEN Throw("Ill-formed URI")
        ELSE IF scheme \in DOMAIN map
        THEN Dispatch(map[scheme], parsedUrl, ctorOk)
        ELSE Throw("Unrecognized backend")

getConfiguration(uri, ctorOk) ==
    LET parsedUrl == ParseHttpUrl(uri)
    IN  IF parsedUrl.protocol = <<>>
        THEN Throw("Ill-formed URI")
        ELSE IF parsedUrl.protocol \in DOMAIN map
        THEN Dispatch(map[parsedUrl.protocol], parsedUrl, ctorOk)
        ELSE Throw("Unrecognized backend")

NoCall == [uri |-> <<>>] @@ Throw("none")

\* the instance a handle of the factory is: its prefix, the default separator
InstanceOf(handle) == [prefix |-> handle.prefix, separator |-> "/"]

NoBackendCall == [op |-> "none", path |-> <<>>, value |-> "", loc |-> <<>>, result |-> "none"]

NullPath == [isNull |-> TRUE, chars |-> <<>>]
EmptyTree == <<>>
NoFileCall ==
    [op |-> "none", path |-> NullPath, key |-> "", outcome |-> "none",
     line |-> 0, parserCalls |-> <<>>]
UnsetFloat == [neg |-> TRUE, whole |-> <<"1">>, frac |-> <<>>]

\* any build, no call made yet; no instance is used and no file is loaded
FactoryInit ==
    /\ jsonEnabled \in BOOLEAN
    /\ consulEnabled \in BOOLEAN
    /\ fac = NoCall
    /\ backend = InstanceOf(NoHandle)
    /\ store = <<>>
    /\ written = {}
    /\ sepHist = "/"
    /\ bop = NoBackendCall
    /\ pt = EmptyTree
    /\ cf = NoFileCall
    /\ outStr = <<"?">>
    /\ outInt = 0 - 1
    /\ outFloat = UnsetFloat

GetConfiguration ==
    /\ \E uri \in Uris, ctorOk \in BOOLEAN :
           fac' = [uri |-> uri] @@ getConfiguration(uri, ctorOk)
    /\ UNCHANGED <<jsonEnabled, consulEnabled, backendVars, fileVars>>

----------------------------------------------------------------------------
(* ConfigurationInterface: one back-end instance over its medium *)

Paths == {<<"a">>, <<"a", "/", "b">>, <<"a", "|", "b">>}
Values == {"v1", "v2"}
SetPrefixArgs == {<<>>, <<"p">>}
Separators == {"|", "/"}

\* the most locations the medium holds in the model
MaxKeys == 2

\* s cut at every occurrence of the character sep; empty segments are kept
RECURSIVE Split(_, _)
Split(s, sep) ==
    LET at == Find(s, <<sep>>)
    IN  IF at = 0 THEN <<s>>
        ELSE <<SubSeq(s, 1, at - 1)>> \o Split(From(s, at + 1), sep)

\* the segments of a prefix: always cut at '/', whatever the separator is
PrefixSegments(prefix) ==
    SelectSeq(Split(prefix, "/"), LAMBDA seg : seg # <<>>)

Locate_replace(b, path) ==
    PrefixSegments(b.prefix)
        \o Split([i \in 1..Len(path) |-> IF path[i] = b.separator THEN "/" ELSE path[i]], "/")

\* the location a path given to put/get addresses: the prefix, then the
\* path's segments under the instance's separator
Locate(b, path) ==
    PrefixSegments(b.prefix) \o Split(path, b.separator)

getString_default(path) ==
    IF Locate(backend, path) \in DOMAIN store
    THEN {store[Locate(backend, path)]}
    ELSE {"v1"}

\* Optional<std::string>: {} is the empty optional, {v} holds v
getString(path) ==
    IF Locate(backend, path) \in DOMAIN store
    THEN {store[Locate(backend, path)]}
    ELSE {}

exists(path) == getString(path) # {}

\* an instance the factory has returned, over a medium holding nothing yet
BackendInit ==
    /\ jsonEnabled = TRUE
    /\ consulEnabled = TRUE
    /\ fac = NoCall
    /\ \E uri \in Uris :
           LET r == getConfiguration(uri, TRUE)
           IN  /\ r.outcome = "returned"
               /\ backend = InstanceOf(r.handle)
    /\ store = <<>>
    /\ written = {}
    /\ sepHist = "/"
    /\ bop = NoBackendCall
    /\ pt = EmptyTree
    /\ cf = NoFileCall
    /\ outStr = <<"?">>
    /\ outInt = 0 - 1
    /\ outFloat = UnsetFloat

PutString ==
    /\ \E path \in Paths, value \in Values :
           LET loc == Locate(backend, path)
           IN  /\ loc \in DOMAIN store \/ Cardinality(DOMAIN store) < MaxKeys
               /\ store' = (loc :> value) @@ store
               /\ written' = written \cup {loc}
               /\ bop' = [op |-> "putString", path |-> path, value |-> value,
                          loc |-> loc, result |-> "ok"]
    /\ UNCHANGED <<backend, sepHist, facVars, fileVars>>

\* the medium rejects the write: the call throws and nothing is stored
PutStringRejected ==
    /\ \E path \in Paths, value \in Values :
           bop' = [op |-> "putString", path |-> path, value |-> value,
                   loc |-> Locate(backend, path), result |-> "rejected"]
    /\ UNCHANGED <<backend, store, written, sepHist, facVars, fileVars>>

GetString ==
    /\ \E path \in Paths :
           bop' = [op |-> "getString", path |-> path, value |-> "",
                   loc |-> Locate(backend, path), result |-> getString(path)]
    /\ UNCHANGED <<backend, store, written, sepHist, facVars, fileVars>>

Exists ==
    /\ \E path \in Paths :
           bop' = [op |-> "exists", path |-> path, value |-> "",
                   loc |-> Locate(backend, path), result |-> exists(path)]
    /\ UNCHANGED <<backend, store, written, sepHist, facVars, fileVars>>

SetPrefix ==
    /\ \E prefix \in SetPrefixArgs :
           /\ backend' = [backend EXCEPT !.prefix = prefix]
           /\ bop' = [op |-> "setPrefix", path |-> prefix, value |-> "",
                      loc |-> <<>>, result |-> "ok"]
    /\ UNCHANGED <<store, written, sepHist, facVars, fileVars>>

setPathSeparator(b, separator) == [b EXCEPT !.separator = separator]

resetPathSeparator_keeps(b) == b

resetPathSeparator(b) == [b EXCEPT !.separator = "/"]

SetPathSeparator ==
    /\ \E separator \in Separators :
           /\ backend' = setPathSeparator(backend, separator)
           /\ sepHist' = separator
           /\ bop' = [op |-> "setPathSeparator", path |-> <<separator>>, value |-> "",
                      loc |-> <<>>, result |-> "ok"]
    /\ UNCHANGED <<store, written, facVars, fileVars>>

ResetPathSeparator ==
    /\ backend' = resetPathSeparator(backend)
    /\ sepHist' = "/"
    /\ bop' = [op |-> "resetPathSeparator", path |-> <<>>, value |-> "",
               loc |-> <<>>, result |-> "ok"]
    /\ UNCHANGED <<store, written, facVars, fileVars>>

----------------------------------------------------------------------------
(* configFile *)

PREFIX_FILE == <<"f", "i", "l", "e", ":">>
SUFFIX_FILE_INI == << <<".", "i", "n", "i">>, <<".", "c", "f", "g">> >>

\* const char* arguments of load: NULL, a string made of a head, a stem and
\* a tail, or one of a few strings without a stem
LoadHeads == {PREFIX_FILE, <<>>, <<"F", "i", "l", "e", ":">>, <<"f", "i", "l", "e">>}
LoadStems == {<<"/", "a">>}
LoadBare == {<<>>, PREFIX_FILE, PREFIX_FILE \o <<".", "i", "n", "i">>, <<".", "i", "n", "i">>}
LoadTails == {<<".", "i", "n", "i">>, <<".", "c", "f", "g">>, <<".", "j", "s", "o", "n">>,
              <<>>, <<".", "i", "n", "i", ".", "b", "a", "k">>, <<".", "I", "N", "I">>,
              <<"i", "n", "i">>}
LoadArgs ==
    {NullPath} \cup
    {[isNull |-> FALSE, chars |-> h \o m \o t] : h \in LoadHeads, m \in LoadStems, t \in LoadTails}
    \cup {[isNull |-> FALSE, chars |-> c] : c \in LoadBare}

\* what the files read by the model hold: key -> the string stored
Tree1 == ("n" :> <<"1", "2">>) @@ ("x" :> <<"1", "2", "a", "b", "c">>)
         @@ ("f" :> <<"3", ".", "7">>) @@ ("s" :> <<"a", "b", "c">>)
Tree2 == ("n" :> <<"-", "3">>) @@ ("x" :> <<>>) @@ ("f" :> <<" ", "5", " ">>)
         @@ ("big" :> <<"9", "9", "9", "9", "9", "9", "9", "9", "9", "9", "9">>)
Trees == {Tree1, Tree2}
Keys == {"n", "x", "f", "s", "big"}

\* what boost's read_ini does with the file named: a tree, or an
\* ini_parser_error with its line (0 when the file cannot be opened)
ReadIniOutcomes ==
    {[ok |-> TRUE, tree |-> t, line |-> 0] : t \in Trees}
    \cup {[ok |-> FALSE, tree |-> EmptyTree, line |-> n] : n \in {0, 3}}

\* the range of int
IntMax == 2147483647
IntMin == 0 - IntMax - 1
IntMinDigits == <<"2", "1", "4", "7", "4", "8", "3", "6", "4", "8">>

RECURSIVE StripZeros(_)
StripZeros(s) == IF s # <<>> /\ s[1] = "0" THEN StripZeros(From(s, 2)) ELSE s

\* the number a digit string denotes when it is at most IntMax, else -1
RECURSIVE Magnitude(_, _)
Magnitude(s, acc) ==
    IF s = <<>> THEN acc
    ELSE IF acc > (IntMax - DigitValue[s[1]]) \div 10 THEN 0 - 1
    ELSE Magnitude(From(s, 2), 10 * acc + DigitValue[s[1]])

RECURSIVE SkipWs(_)
SkipWs(s) == IF s # <<>> /\ s[1] = " " THEN SkipWs(From(s, 2)) ELSE s

\* boost's stream translator for int: operator>> (leading white space, a
\* sign, digits, the value within int), then trailing white space, then the
\* end of the string; anything else is no value
ParseInt(s) ==
    LET body == SkipWs(s)
        signed == body # <<>> /\ body[1] \in {"-", "+"}
        negative == signed /\ body[1] = "-"
        unsigned == IF signed THEN From(body, 2) ELSE body
        digits == LeadingDigits(unsigned)
        magnitude == Magnitude(digits, 0)
        lowest == negative /\ StripZeros(digits) = IntMinDigits
        v == IF lowest THEN IntMin
             ELSE IF negative THEN 0 - magnitude ELSE magnitude
        rest == SkipWs(From(unsigned, Len(digits) + 1))
    IN  IF digits # <<>> /\ (magnitude >= 0 \/ lowest) /\ rest = <<>>
        THEN [ok |-> TRUE, v |-> v]
        ELSE [ok |-> FALSE, v |-> 0]

RECURSIVE StripTrailingZeros(_)
StripTrailingZeros(s) ==
    IF s # <<>> /\ s[Len(s)] = "0" THEN StripTrailingZeros(SubSeq(s, 1, Len(s) - 1)) ELSE s

\* boost's stream translator for float, on strings without an exponent: a
\* sign, digits, a point, digits (one digit at least), white space around.
\* The float is stood for by the decimal it is nearest to: its sign, the
\* digits before the point and the digits after it.
ParseFloat(s) ==
    LET body == SkipWs(s)
        signed == body # <<>> /\ body[1] \in {"-", "+"}
        negative == signed /\ body[1] = "-"
        unsigned == IF signed THEN From(body, 2) ELSE body
        whole == LeadingDigits(unsigned)
        afterWhole == From(unsigned, Len(whole) + 1)
        pointed == afterWhole # <<>> /\ afterWhole[1] = "."
        fraction == IF pointed THEN LeadingDigits(From(afterWhole, 2)) ELSE <<>>
        afterNumber == IF pointed THEN From(afterWhole, Len(fraction) + 2) ELSE afterWhole
        rest == SkipWs(afterNumber)
    IN  IF Len(whole) + Len(fraction) > 0 /\ rest = <<>>
        THEN [ok |-> TRUE,
              v |-> [neg |-> negative, whole |-> StripZeros(whole),
                     frac |-> StripTrailingZeros(fraction)]]
        ELSE [ok |-> FALSE, v |-> [neg |-> FALSE, whole |-> <<>>, frac |-> <<>>]]

\* std::atoi: the leading number, 0 when there is none
Atoi(s) ==
    LET body == SkipWs(s)
        negative == body # <<>> /\ body[1] = "-"
        unsigned == IF negative THEN From(body, 2) ELSE body
        magnitude == Magnitude(LeadingDigits(unsigned), 0)
    IN  IF negative THEN 0 - magnitude ELSE magnitude

\* the outcome of a load that called nothing
LoadThrow(what) == [outcome |-> what, line |-> 0, parserCalls |-> <<>>, tree |-> pt]

\* read_ini(filename, dPtr->pt) and the catch around it
ReadIni(filename, parsed) ==
    IF parsed.ok
    THEN [outcome |-> "ok", line |-> 0, parserCalls |-> <<filename>>, tree |-> parsed.tree]
    ELSE [outcome |-> "ini_parser_error", line |-> parsed.line,
          parserCalls |-> <<filename>>, tree |-> pt]

\* the loop over suffix_ini from its i-th entry on
RECURSIVE LoadSuffix(_, _, _)
LoadSuffix(filename, i, parsed) ==
    IF i > Len(SUFFIX_FILE_INI)
    THEN LoadThrow("Invalid type in file name")
    ELSE IF EndsWith(filename, SUFFIX_FILE_INI[i])
    THEN ReadIni(filename, parsed)
    ELSE LoadSuffix(filename, i + 1, parsed)

load_anySuffix(path, parsed) ==
    IF path.isNull
    THEN LoadThrow("Invalid argument")
    ELSE IF StartsWith(path.chars, PREFIX_FILE)
    THEN ReadIni(From(path.chars, Len(PREFIX_FILE) + 1), parsed)
    ELSE LoadThrow("Invalid path prefix")

load(path, parsed) ==
    IF path.isNull
    THEN LoadThrow("Invalid argument")
    ELSE IF StartsWith(path.chars, PREFIX_FILE)
    THEN LoadSuffix(From(path.chars, Len(PREFIX_FILE) + 1), 1, parsed)
    ELSE LoadThrow("Invalid path prefix")

getValue_string(key, value) ==
    IF key \in DOMAIN pt
    THEN [outcome |-> "ok", value |-> pt[key]]
    ELSE [outcome |-> "ptree_bad_path", value |-> value]

getValue_int_atoi(key, value) ==
    IF key \in DOMAIN pt
    THEN [outcome |-> "ok", value |-> Atoi(pt[key])]
    ELSE [outcome |-> "ptree_bad_path", value |-> value]

getValue_int(key, value) ==
    IF key \in DOMAIN pt
    THEN IF ParseInt(pt[key]).ok
         THEN [outcome |-> "ok", value |-> ParseInt(pt[key]).v]
         ELSE [outcome |-> "ptree_bad_data", value |-> value]
    ELSE [outcome |-> "ptree_bad_path", value |-> value]

getValue_float(key, value) ==
    IF key \in DOMAIN pt
    THEN IF ParseFloat(pt[key]).ok
         THEN [outcome |-> "ok", value |-> ParseFloat(pt[key]).v]
         ELSE [outcome |-> "ptree_bad_data", value |-> value]
    ELSE [outcome |-> "ptree_bad_path", value |-> value]

\* a configFile just constructed, and the caller's variables
FileInit ==
    /\ jsonEnabled = TRUE
    /\ consulEnabled = TRUE
    /\ fac = NoCall
    /\ backend = InstanceOf(NoHandle)
    /\ store = <<>>
    /\ written = {}
    /\ sepHist = "/"
    /\ bop = NoBackendCall
    /\ pt = EmptyTree
    /\ cf = NoFileCall
    /\ outStr = <<"?">>
    /\ outInt = 0 - 1
    /\ outFloat = UnsetFloat

\* what read_ini may do in a call of load: drawn only when load reaches it
ParserChoices(path) ==
    LET any == CHOOSE o \in ReadIniOutcomes : TRUE
    IN  IF load(path, any).parserCalls = <<>> THEN {any} ELSE ReadIniOutcomes

Load ==
    /\ \E path \in LoadArgs :
       \E parsed \in ParserChoices(path) :
           LET r == load(path, parsed)
           IN  /\ pt' = r.tree
               /\ cf' = [op |-> "load", path |-> path, key |-> "", outcome |-> r.outcome,
                         line |-> r.line, parserCalls |-> r.parserCalls]
    /\ UNCHANGED <<outStr, outInt, outFloat, facVars, backendVars>>

GetValueString ==
    /\ \E key \in Keys :
           LET r == getValue_string(key, outStr)
           IN  /\ outStr' = r.value
               /\ cf' = [op |-> "getValue string", path |-> NullPath, key |-> key,
                         outcome |-> r.outcome, line |-> 0, parserCalls |-> <<>>]
    /\ UNCHANGED <<pt, outInt, outFloat, facVars, backendVars>>

GetValueInt ==
    /\ \E key \in Keys :
           LET r == getValue_int(key, outInt)
           IN  /\ outInt' = r.value
               /\ cf' = [op |-> "getValue int", path |-> NullPath, key |-> key,
                         outcome |-> r.outcome, line |-> 0, parserCalls |-> <<>>]
    /\ UNCHANGED <<pt, outStr, outFloat, facVars, backendVars>>

GetValueFloat ==
    /\ \E key \in Keys :
           LET r == getValue_float(key, outFloat)
           IN  /\ outFloat' = r.value
               /\ cf' = [op |-> "getValue float", path |-> NullPath, key |-> key,
                         outcome |-> r.outcome, line |-> 0, parserCalls |-> <<>>]
    /\ UNCHANGED <<pt, outStr, outInt, facVars, backendVars>>

----------------------------------------------------------------------------
(* Specifications: one per component, the other components at rest *)

FactoryNext == GetConfiguration

BackendNext ==
    \/ PutString
    \/ PutStringRejected
    \/ GetString
    \/ Exists
    \/ SetPrefix
    \/ SetPathSeparator
    \/ ResetPathSeparator

FileNext ==
    \/ Load
    \/ GetValueString
    \/ GetValueInt
    \/ GetValueFloat

SpecFactory == FactoryInit /\ [][FactoryNext]_vars

SpecBackend == BackendInit /\ [][BackendNext]_vars

SpecFile == FileInit /\ [][FileNext]_vars

----------------------------------------------------------------------------
(* Properties of ConfigurationFactory, under SpecFactory *)

Called == fac.outcome # "none"
Parsed == ParseHttpUrl(fac.uri)
NothingConstructed == fac.ctors = <<>> /\ fac.setPrefix = <<>> /\ fac.handle = NoHandle

\* C1: whenever the parsed URI has an empty scheme, getConfiguration fails
\* with "Ill-formed URI"; the table is not consulted, so no constructor has
\* run and the outcome is not "Unrecognized backend".
C1_IllFormedUri ==
    Called /\ Parsed.protocol = <<>>
        => /\ fac.outcome = "Ill-formed URI"
           /\ fac.outcome # "Unrecognized backend"
           /\ NothingConstructed

C1_Witness == fac.uri = U_notAUri /\ fac.outcome = "Ill-formed URI"

\* C2: whenever the scheme is not empty and is none of file, json, consul,
\* getConfiguration fails with "Unrecognized backend" and constructs nothing.
C2_UnrecognizedBackend ==
    Called /\ Parsed.protocol # <<>> /\ Parsed.protocol \notin {S_file, S_json, S_consul}
        => /\ fac.outcome = "Unrecognized backend"
           /\ NothingConstructed

C2_Witness == fac.uri = U_ftp /\ fac.outcome = "Unrecognized backend"

C4_BackendNotEnabled ==
    /\ Called /\ Parsed.protocol = S_json /\ ~jsonEnabled
           => fac.outcome = "Back-end 'json' not enabled" /\ NothingConstructed
    /\ Called /\ Parsed.protocol = S_consul /\ ~consulEnabled
           => fac.outcome = "Back-end 'consul' not enabled" /\ NothingConstructed

C4_Witness ==
    /\ ~jsonEnabled
    /\ fac.uri = U_json3
    /\ fac.outcome = "Back-end 'json' not enabled"

\* the first n entries of a sequence
Head_n(s, n) == SubSeq(s, 1, n)

\* C5: for the consul scheme the back end is constructed from the URI's host
\* and port; on the instance constructed setPrefix is called once, with the
\* path, when the path is not empty, and is not called when it is empty, so
\* that every location the handle addresses lies under the path's segments.
C5_ConsulPrefix ==
    Called /\ Parsed.protocol = S_consul /\ consulEnabled
        => /\ fac.ctors = <<[kind |-> "consul", host |-> Parsed.host, port |-> Parsed.port]>>
           /\ fac.outcome \in {"returned", "construction failed"}
           /\ fac.outcome = "construction failed" => fac.setPrefix = <<>> /\ fac.handle = NoHandle
           /\ fac.outcome = "returned"
                  => /\ fac.setPrefix = IF Parsed.path # <<>> THEN <<Parsed.path>> ELSE <<>>
                     /\ fac.handle.kind = "consul"
                     /\ fac.handle.host = Parsed.host
                     /\ fac.handle.port = Parsed.port
                     /\ fac.handle.prefix = Parsed.path
                     /\ \A p \in Paths :
                            LET under == PrefixSegments(Parsed.path)
                                loc == Locate(InstanceOf(fac.handle), p)
                            IN  /\ Len(loc) > Len(under)
                                /\ Head_n(loc, Len(under)) = under

C5_Witness ==
    /\ fac.uri = U_consulPrefix
    /\ fac.outcome = "returned"
    /\ fac.setPrefix = << <<"/", "p">> >>
    /\ fac.handle.host = <<"h">>
    /\ fac.handle.port = 8500

----------------------------------------------------------------------------
(* Properties of a back-end instance, under SpecBackend *)

\* C6: a putString that returns is read back by getString on the same path
\* while prefix and separator stay as they are; it replaces what the path
\* held; and it leaves what getString returns for every other path as it was.
C6_PutGetRoundTrip ==
    [][/\ bop'.op = "putString" /\ bop'.result = "ok"
           => \A q \in Paths :
                  getString(q)' = IF q = bop'.path THEN {bop'.value} ELSE getString(q)
       /\ bop'.op = "putString" /\ bop'.result = "rejected"
           => \A q \in Paths : getString(q)' = getString(q)
       /\ bop'.op \in {"getString", "exists"}
           => \A q \in Paths : getString(q)' = getString(q)
       /\ bop'.op = "getString" /\ bop.op = "putString" /\ bop.result = "ok"
              /\ bop'.path = bop.path
           => bop'.result = {bop.value}
      ]_vars

C6_Witness ==
    /\ bop.op = "getString"
    /\ bop.result = {"v2"}
    /\ Cardinality(DOMAIN store) = 2
    /\ backend.prefix # <<>>

C8_SeparatorPersists ==
    /\ backend.separator = sepHist
    /\ bop.op \in {"putString", "getString", "exists"}
           => bop.loc = PrefixSegments(backend.prefix) \o Split(bop.path, sepHist)
    /\ sepHist = "|"
           => Locate(backend, <<"a", "|", "b">>)
                  = Locate([backend EXCEPT !.separator = "/"], <<"a", "/", "b">>)
    /\ \A p \in Paths :
           Head_n(Locate(backend, p), Len(PrefixSegments(backend.prefix)))
               = SelectSeq(Split(backend.prefix, "/"), LAMBDA seg : seg # <<>>)

C8_Witness ==
    /\ bop.op = "getString"
    /\ sepHist = "|"
    /\ bop.path = <<"a", "|", "b">>
    /\ bop.result # {}
    /\ backend.prefix = <<"/", "p">>
    /\ bop.loc = << <<"p">>, <<"a">>, <<"b">> >>

----------------------------------------------------------------------------
(* Properties of configFile, under SpecFile *)

HasFilePrefix(path) == ~path.isNull /\ StartsWith(path.chars, <<"f", "i", "l", "e", ":">>)
AfterFilePrefix(path) == SubSeq(path.chars, 6, Len(path.chars))
HasIniSuffix(name) ==
    \/ EndsWith(name, <<".", "i", "n", "i">>)
    \/ EndsWith(name, <<".", "c", "f", "g">>)

\* C9: load calls the INI parser at most once, and exactly when the path
\* starts with "file:" and what follows ends with .ini or .cfg, giving the
\* parser what follows "file:"; a null path fails with "Invalid argument", a
\* path without "file:" with "Invalid path prefix" whatever its suffix, a
\* "file:" path with another suffix with "Invalid type in file name", and
\* these three leave the parser uncalled and the loaded tree as it was.
C9_LoadDispatch ==
    [][cf'.op = "load"
           => LET path == cf'.path
                  parse == HasFilePrefix(path) /\ HasIniSuffix(AfterFilePrefix(path))
              IN  /\ Len(cf'.parserCalls) <= 1
                  /\ parse <=> cf'.parserCalls # <<>>
                  /\ parse => cf'.parserCalls = <<AfterFilePrefix(path)>>
                  /\ parse => cf'.outcome \in {"ok", "ini_parser_error"}
                  /\ path.isNull => cf'.outcome = "Invalid argument"
                  /\ ~path.isNull /\ ~HasFilePrefix(path) => cf'.outcome = "Invalid path prefix"
                  /\ HasFilePrefix(path) /\ ~parse => cf'.outcome = "Invalid type in file name"
                  /\ ~parse => pt' = pt
      ]_vars

C9_Witness ==
    /\ cf.op = "load"
    /\ cf.outcome = "ok"
    /\ cf.path.chars = <<"f", "i", "l", "e", ":", "/", "a", ".", "c", "f", "g">>
    /\ cf.parserCalls = << <<"/", "a", ".", "c", "f", "g">> >>
    /\ pt = Tree2

RECURSIVE Strip(_)
Strip(s) ==
    IF s # <<>> /\ s[1] = " " THEN Strip(SubSeq(s, 2, Len(s)))
    ELSE IF s # <<>> /\ s[Len(s)] = " " THEN Strip(SubSeq(s, 1, Len(s) - 1))
    ELSE s

DigitChars == <<"0", "1", "2", "3", "4", "5", "6", "7", "8", "9">>

\* an int as std::to_string writes it
RECURSIVE Decimal(_)
Decimal(n) ==
    IF n < 0 THEN <<"-">> \o Decimal(0 - n)
    ELSE IF n < 10 THEN <<DigitChars[n + 1]>>
    ELSE Decimal(n \div 10) \o <<DigitChars[(n % 10) + 1]>>

\* the decimal a float stands for, written out
DecimalOfFloat(v) ==
    (IF v.neg THEN <<"-">> ELSE <<>>) \o v.whole
        \o (IF v.frac = <<>> THEN <<>> ELSE <<".">> \o v.frac)

\* a numeral of at most nine digits, with or without '-'
ShortNumeral(s) ==
    LET digits == IF s # <<>> /\ s[1] = "-" THEN SubSeq(s, 2, Len(s)) ELSE s
    IN  /\ Len(digits) \in 1..9
        /\ \A i \in 1..Len(digits) : \E d \in 1..10 : digits[i] = DigitChars[d]

\* C10: each overload of getValue either assigns to its out argument the
\* stored value in the type asked for (the string itself; the int or float
\* whose decimal is the stored string, white space apart) or throws and
\* leaves the out argument as it was; it throws when the key is absent, and
\* never on a short numeral read as int; it assigns nothing else (no default,
\* no zero, no leading part of the string) and never changes the loaded tree.
C10_GetValueAssignsOrThrows ==
    [][cf'.op \in {"getValue string", "getValue int", "getValue float"}
           => /\ pt' = pt
              /\ cf'.key \notin DOMAIN pt => cf'.outcome # "ok"
              /\ cf'.outcome # "ok" => outStr' = outStr /\ outInt' = outInt /\ outFloat' = outFloat
              /\ cf'.op = "getValue string"
                     => /\ outInt' = outInt /\ outFloat' = outFloat
                        /\ cf'.key \in DOMAIN pt => cf'.outcome = "ok" /\ outStr' = pt[cf'.key]
              /\ cf'.op = "getValue int"
                     => /\ outStr' = outStr /\ outFloat' = outFloat
                        /\ cf'.outcome = "ok" => Decimal(outInt') = Strip(pt[cf'.key])
                        /\ cf'.key \in DOMAIN pt /\ ShortNumeral(Strip(pt[cf'.key]))
                               => cf'.outcome = "ok"
              /\ cf'.op = "getValue float"
                     => /\ outStr' = outStr /\ outInt' = outInt
                        /\ cf'.outcome = "ok" => DecimalOfFloat(outFloat') = Strip(pt[cf'.key])
                        /\ cf'.key \in DOMAIN pt /\ ShortNumeral(Strip(pt[cf'.key]))
                               => cf'.outcome = "ok"
      ]_vars

C10_Witness ==
    /\ cf.op = "getValue int"
    /\ cf.key = "x"
    /\ cf.outcome = "ptree_bad_data"
    /\ pt = Tree1
    /\ outInt = 12
    /\ outFloat = [neg |-> FALSE, whole |-> <<"3">>, frac |-> <<"7">>]

====
